---- MODULE Spec2Model ----
(***************************************************************************)
(* A model of the resume review bot (src/ai-resume-review.py): the LLM     *)
(* client get_chat_completion with its retry loop, the pydantic schema     *)
(* ResumeFeedback, get_score_color, review_resume, and the discord         *)
(* on_message handler running as tasks of one single-threaded event loop;  *)
(* and of the extended review_resume of src/utils/resume_utils.py with its *)
(* job arguments and its two prompts.                                      *)
(*                                                                         *)
(* Text is a sequence of one-character strings (<<"a","b">> is "ab"), so   *)
(* that join, lower and endswith are computed.  A JSON value is a record   *)
(* tagged with its JSON type, so that a validator can look at the type     *)
(* before it looks at the value.                                           *)
(***************************************************************************)
EXTENDS Integers, Sequences, FiniteSets, TLC

VARIABLES
    waited,     \* seconds gone by since the retry loop's last failed attempt
    running,    \* the task that holds the event-loop thread, 0 when the loop is free
    msg,        \* event -> the message it delivered (None before it arrives)
    pc,         \* event -> where its on_message task stands
    att,        \* event -> index of the attachment the for loop is at
    pdf,        \* event -> the bytes attachment.read() returned for that attachment
    feedback,   \* event -> the dict review_resume returned
    pos,        \* event -> <<section, item index, bullet index>> of the nested for loops
    sent,       \* event -> the embeds message.channel.send delivered, in order
    outcome,    \* event -> per processed attachment, how its iteration ended
    attempt,    \* get_chat_completion: the loop variable `attempt`
    reqlog,     \* get_chat_completion: the requests.post calls of the current call
    callResult, \* get_chat_completion: what the current call returned or raised
    sleepCoros, \* coroutine objects asyncio.sleep(2) created; nothing ever awaits them
    calls,      \* event -> the get_chat_completion calls of its latest review_resume
                \* run, each as the number of requests.post calls it made
    input,      \* the argument a pure function is applied to
    output      \* its result (None until applied)

vars == <<waited, running, msg, pc, att, pdf, feedback, pos, sent, outcome,
          attempt, reqlog, callResult, sleepCoros, input, output, calls>>

None == [t |-> "none"]

(***************************************************************************)
(* Bounds of the model.                                                    *)
(***************************************************************************)
MaxEvents == 2
ScoreSpan == 5

Events == 1..MaxEvents

(***************************************************************************)
(* Program constants.                                                      *)
(***************************************************************************)
HIGH_SCORE_COLOR == 65280
GOOD_SCORE_COLOR == 4980735
LOW_SCORE_COLOR == 16764736
BAD_SCORE_COLOR == 16730955
retries == 3
RETRY_DELAY == 2
MAX_REWRITES == 2
MIN_SCORE == 1
MAX_SCORE == 10
RESUME_REVIEW_TEST_CHANNEL_ID == 101
RESUME_REVIEW_CHANNEL_ID == 102
OTHER_CHANNEL_ID == RESUME_REVIEW_CHANNEL_ID + 1

(***************************************************************************)
(* Text.                                                                   *)
(***************************************************************************)
Digits == {"0", "1", "2", "3", "4", "5", "6", "7", "8", "9"}

DigitVal(c) ==
    CASE c = "0" -> 0 [] c = "1" -> 1 [] c = "2" -> 2 [] c = "3" -> 3
      [] c = "4" -> 4 [] c = "5" -> 5 [] c = "6" -> 6 [] c = "7" -> 7
      [] c = "8" -> 8 [] c = "9" -> 9

IsNumeric(s) == Len(s) > 0 /\ \A i \in 1..Len(s) : s[i] \in Digits

RECURSIVE ParseDigits(_)
ParseDigits(s) ==
    IF s = <<>> THEN 0
    ELSE 10 * ParseDigits(SubSeq(s, 1, Len(s) - 1)) + DigitVal(s[Len(s)])

\* str.join
RECURSIVE Join(_, _)
Join(sep, parts) ==
    IF parts = <<>> THEN <<>>
    ELSE IF Len(parts) = 1 THEN parts[1]
    ELSE parts[1] \o sep \o Join(sep, Tail(parts))

(***************************************************************************)
(* JSON values, as json.loads builds them.                                 *)
(***************************************************************************)
JInt(n) == [t |-> "int", v |-> n]
\* a JSON number with a decimal point: whole is int(x), frac says x != int(x)
JFloat(w, f) == [t |-> "float", whole |-> w, frac |-> f]
JStr(s) == [t |-> "str", v |-> s]
JBool(b) == [t |-> "bool", v |-> b]
JNull == [t |-> "null"]
JList(s) == [t |-> "list", v |-> s]
JObj(r) == [t |-> "obj", v |-> r]

Has(o, k) == k \in DOMAIN o.v

(***************************************************************************)
(* The pydantic models (src/ai-resume-review.py 32-49).  The source does   *)
(* not pin the pydantic release; the two major releases differ on a number *)
(* with a fractional part given for an int field (1 truncates it, 2        *)
(* rejects it), so the release is a parameter of the validation.           *)
(***************************************************************************)
PydanticMajors == {1, 2}

Ok(x) == [ok |-> TRUE, value |-> x]
Err(e) == [ok |-> FALSE, error |-> e]

\* `int` field, not strict: ints pass, bools are ints, numeric text is parsed,
\* a whole float is converted
IntCoerce(v, major) ==
    CASE v.t = "int" -> Ok(v.v)
      [] v.t = "bool" -> Ok(IF v.v THEN 1 ELSE 0)
      [] v.t = "float" -> IF (~v.frac) \/ major = 1 THEN Ok(v.whole) ELSE Err("int_type")
      [] v.t = "str" -> IF IsNumeric(v.v) THEN Ok(ParseDigits(v.v)) ELSE Err("int_parsing")
      [] OTHER -> Err("int_type")

\* score: int = Field(..., ge=1, le=10)
ScoreField(o, major) ==
    IF ~Has(o, "score") THEN Err("missing")
    ELSE LET c == IntCoerce(o.v.score, major)
         IN  IF ~c.ok THEN c
             ELSE IF c.value < MIN_SCORE THEN Err("greater_than_equal")
             ELSE IF c.value > MAX_SCORE THEN Err("less_than_equal")
             ELSE c

\* a required `str` field; the payloads give text, null or nothing for it
StrField(o, k) ==
    IF ~Has(o, k) THEN Err("missing")
    ELSE IF o.v[k].t = "str" THEN Ok(o.v[k].v)
    ELSE Err("string_type")

\* a rewrites field declared without its default
RewritesFieldRequired(o) ==
    IF ~Has(o, "rewrites") THEN Err("missing")
    ELSE LET r == o.v.rewrites
         IN  IF r.t # "list" THEN Err("list_type")
             ELSE IF Len(r.v) > MAX_REWRITES THEN Err("too_long")
             ELSE IF \E i \in 1..Len(r.v) : r.v[i].t # "str" THEN Err("string_type")
             ELSE Ok([i \in 1..Len(r.v) |-> r.v[i].v])

\* rewrites: list[str] = Field(default=[], max_items=2)
RewritesField(o) ==
    IF ~Has(o, "rewrites") THEN Ok(<<>>)
    ELSE LET r == o.v.rewrites
         IN  IF r.t # "list" THEN Err("list_type")
             ELSE IF Len(r.v) > MAX_REWRITES THEN Err("too_long")
             ELSE IF \E i \in 1..Len(r.v) : r.v[i].t # "str" THEN Err("string_type")
             ELSE Ok([i \in 1..Len(r.v) |-> r.v[i].v])

\* class ResumeBullet(BaseModel); unknown keys are ignored
ResumeBullet(b, major) ==
    IF b.t # "obj" THEN Err("model_type")
    ELSE LET c == StrField(b, "content")
             f == StrField(b, "feedback")
             r == RewritesField(b)
             s == ScoreField(b, major)
         IN  IF ~c.ok THEN c
             ELSE IF ~f.ok THEN f
             ELSE IF ~r.ok THEN r
             ELSE IF ~s.ok THEN s
             ELSE Ok([content |-> c.value, feedback |-> f.value,
                      rewrites |-> r.value, score |-> s.value])

\* bullets: list[ResumeBullet] = Field(...)
BulletsField(o, major) ==
    IF ~Has(o, "bullets") THEN Err("missing")
    ELSE LET l == o.v.bullets
         IN  IF l.t # "list" THEN Err("list_type")
             ELSE IF \E i \in 1..Len(l.v) : ~ResumeBullet(l.v[i], major).ok
                  THEN Err("bullets")
             ELSE Ok([i \in 1..Len(l.v) |-> ResumeBullet(l.v[i], major).value])

\* class ResumeExperience(BaseModel)
ResumeExperience(e, major) ==
    IF e.t # "obj" THEN Err("model_type")
    ELSE LET b == BulletsField(e, major)
             c == StrField(e, "company")
             r == StrField(e, "role")
         IN  IF ~b.ok THEN b
             ELSE IF ~c.ok THEN c
             ELSE IF ~r.ok THEN r
             ELSE Ok([bullets |-> b.value, company |-> c.value, role |-> r.value])

\* class ResumeProject(BaseModel)
ResumeProject(p, major) ==
    IF p.t # "obj" THEN Err("model_type")
    ELSE LET b == BulletsField(p, major)
             t == StrField(p, "title")
         IN  IF ~b.ok THEN b
             ELSE IF ~t.ok THEN t
             ELSE Ok([bullets |-> b.value, title |-> t.value])

\* experiences: list[ResumeExperience] = Field(...)
ExperiencesField(o, major) ==
    IF ~Has(o, "experiences") THEN Err("missing")
    ELSE LET l == o.v.experiences
         IN  IF l.t # "list" THEN Err("list_type")
             ELSE IF \E i \in 1..Len(l.v) : ~ResumeExperience(l.v[i], major).ok
                  THEN Err("experiences")
             ELSE Ok([i \in 1..Len(l.v) |-> ResumeExperience(l.v[i], major).value])

\* projects: list[ResumeProject] = Field(...)
ProjectsField(o, major) ==
    IF ~Has(o, "projects") THEN Err("missing")
    ELSE LET l == o.v.projects
         IN  IF l.t # "list" THEN Err("list_type")
             ELSE IF \E i \in 1..Len(l.v) : ~ResumeProject(l.v[i], major).ok
                  THEN Err("projects")
             ELSE Ok([i \in 1..Len(l.v) |-> ResumeProject(l.v[i], major).value])

\* class ResumeFeedback(BaseModel): ResumeFeedback(**d) and then .dict();
\* every violation is reported as one pydantic ValidationError
ResumeFeedback(d, major) ==
    LET e == ExperiencesField(d, major)
        p == ProjectsField(d, major)
    IN  IF ~e.ok \/ ~p.ok THEN Err("ValidationError")
        ELSE Ok([experiences |-> e.value, projects |-> p.value])

(***************************************************************************)
(* get_score_color (src/ai-resume-review.py 184-194).                      *)
(***************************************************************************)
\* the second test written with > for >=
get_score_color_gt(score) ==
    IF score = 10 THEN HIGH_SCORE_COLOR
    ELSE IF score > 7 THEN GOOD_SCORE_COLOR
    ELSE IF score = 6 THEN LOW_SCORE_COLOR
    ELSE BAD_SCORE_COLOR

get_score_color(score) ==
    IF score = 10 THEN HIGH_SCORE_COLOR
    ELSE IF score >= 7 THEN GOOD_SCORE_COLOR
    ELSE IF score = 6 THEN LOW_SCORE_COLOR
    ELSE BAD_SCORE_COLOR

(***************************************************************************)
(* Inputs of the pure functions: model outputs as the validator may see    *)
(* them, and scores.                                                       *)
(***************************************************************************)
TxtC == <<"c">>
TxtF == <<"f">>
TxtR == <<"r">>
TxtS == <<"s">>
TxtEmpty == <<>>

ScoreInputs == (0 - ScoreSpan)..(MAX_SCORE + ScoreSpan)

ScoreValues ==
    {JInt(n) : n \in (MIN_SCORE - 2)..(MAX_SCORE + 2)}
    \cup {JFloat(w, f) : w \in {0, 9, 10, 11}, f \in BOOLEAN}
    \cup {JStr(<<"9">>), JStr(<<"1", "0">>), JStr(<<"1", "1">>), JStr(<<"0">>),
          JStr(<<"n", "i", "n", "e">>), JStr(TxtEmpty)}
    \cup {JBool(TRUE), JBool(FALSE), JNull}

RewritesValues ==
    {JList(<<>>), JList(<<JStr(TxtR)>>), JList(<<JStr(TxtEmpty)>>),
     JList(<<JStr(TxtR), JStr(TxtS)>>), JList(<<JStr(TxtR), JStr(TxtEmpty)>>),
     JList(<<JStr(TxtR), JStr(TxtS), JStr(TxtR)>>),
     JList(<<JInt(1)>>), JNull}

BaseBullet == [content |-> JStr(TxtC), feedback |-> JStr(TxtF)]

\* bullet objects: every score value, with and without rewrites, with and
\* without a key the schema does not know
RawBullets ==
    {JObj(BaseBullet @@ ("score" :> s)) : s \in ScoreValues}
    \cup {JObj(BaseBullet @@ ("score" :> s) @@ ("rewrites" :> r)) :
             s \in ScoreValues, r \in RewritesValues}
    \cup {JObj(BaseBullet @@ ("score" :> s) @@ ("rewrites" :> r) @@ ("note" :> JInt(0))) :
             s \in {JInt(10), JInt(11), JStr(<<"9">>)}, r \in RewritesValues}
    \cup {JObj(BaseBullet), JObj([content |-> JStr(TxtC), score |-> JInt(5)]),
          JObj([feedback |-> JStr(TxtF), score |-> JInt(5)]),
          JObj([content |-> JNull, feedback |-> JStr(TxtF), score |-> JInt(5)])}

RawExperience(bs) == JObj([company |-> JStr(TxtC), role |-> JStr(TxtR), bullets |-> JList(bs)])
RawProject(bs) == JObj([title |-> JStr(TxtC), bullets |-> JList(bs)])
RawFeedback(es, ps) == JObj([experiences |-> JList(es), projects |-> JList(ps)])

GoodBullet == JObj(BaseBullet @@ ("score" :> JInt(9)) @@ ("rewrites" :> JList(<<JStr(TxtR)>>)))

EmptyPayload == RawFeedback(<<>>, <<>>)

RawPayloads ==
    {RawFeedback(<<RawExperience(<<b>>)>>, <<>>) : b \in RawBullets}
    \cup {RawFeedback(<<>>, <<RawProject(<<GoodBullet, b>>)>>) : b \in RawBullets}
    \cup {EmptyPayload,
          JObj([experiences |-> JList(<<>>)]),
          JObj([projects |-> JList(<<>>)]),
          JObj([experiences |-> JList(<<>>), projects |-> JList(<<>>), formatting |-> JNull]),
          JObj([experiences |-> JNull, projects |-> JList(<<>>)]),
          RawFeedback(<<JObj([company |-> JStr(TxtC), bullets |-> JList(<<>>)])>>, <<>>),
          RawFeedback(<<JObj([company |-> JStr(TxtC), role |-> JStr(TxtR)])>>, <<>>),
          RawFeedback(<<RawExperience(<<>>)>>, <<JObj([bullets |-> JList(<<>>)])>>),
          RawFeedback(<<RawExperience(<<>>)>>, <<RawProject(<<>>)>>)}

PureInputs ==
    {[fn |-> "ResumeFeedback", arg |-> p] : p \in RawPayloads}
    \cup {[fn |-> "get_score_color", arg |-> s] : s \in ScoreInputs}

(***************************************************************************)
(* Messages the gateway may deliver.                                       *)
(***************************************************************************)
LowerChar(c) ==
    CASE c = "C" -> "c" [] c = "V" -> "v" [] c = "P" -> "p"
      [] c = "D" -> "d" [] c = "F" -> "f" [] OTHER -> c

\* str.lower
Lower(s) == [i \in 1..Len(s) |-> LowerChar(s[i])]

\* str.endswith
EndsWith(s, suffix) ==
    /\ Len(s) >= Len(suffix)
    /\ SubSeq(s, Len(s) - Len(suffix) + 1, Len(s)) = suffix

\* attachment.filename.lower().endswith('.pdf')
IsPdf(filename) == EndsWith(Lower(filename), <<".", "p", "d", "f">>)

FileCvPdf == <<"c", "v", ".", "p", "d", "f">>
FileUpperPdf == <<"C", "V", ".", "P", "D", "F">>
FilePng == <<"a", ".", "p", "n", "g">>
FilePdfTxt == <<"p", "d", "f", ".", "t", "x", "t">>

\* in_thread: the channel is a thread, so it has a parent_id
Message(author, in_thread, parent_id, attachments) ==
    [author |-> author, in_thread |-> in_thread, parent_id |-> parent_id,
     attachments |-> attachments]

Messages ==
    {Message("user", TRUE, RESUME_REVIEW_CHANNEL_ID, <<FileCvPdf>>),
     Message("user", TRUE, RESUME_REVIEW_TEST_CHANNEL_ID, <<FileUpperPdf, FilePng, FileCvPdf>>),
     Message("bot", TRUE, RESUME_REVIEW_CHANNEL_ID, <<FileCvPdf>>),
     Message("user", TRUE, OTHER_CHANNEL_ID, <<FileCvPdf>>),
     Message("user", TRUE, RESUME_REVIEW_CHANNEL_ID, <<>>),
     Message("user", TRUE, RESUME_REVIEW_CHANNEL_ID, <<FilePdfTxt>>),
     Message("user", FALSE, 0, <<FileCvPdf>>)}

\* the next attachment at or after index `from` that the filename test lets through
NextPdf(m, from) ==
    IF \E i \in from..Len(m.attachments) : IsPdf(m.attachments[i])
    THEN CHOOSE i \in from..Len(m.attachments) :
            /\ IsPdf(m.attachments[i])
            /\ \A j \in from..(i - 1) : ~IsPdf(m.attachments[j])
    ELSE 0

(***************************************************************************)
(* What the completion endpoint may answer.  A document is JSON text       *)
(* (json.loads gives its value) or text that is not JSON.                  *)
(***************************************************************************)
JsonDoc(v) == [kind |-> "json", value |-> v]
NotJsonDoc == [kind |-> "not_json"]

\* a JSON string whose characters are the document d
JText(d) == [t |-> "str", doc |-> d]

\* json.loads
JsonLoads(d) == IF d.kind = "json" THEN Ok(d.value) ELSE Err("JSONDecodeError")

\* the messages API envelope: {"content": [{"type": "text", "text": ...}]}
Envelope(inner) == JsonDoc(JObj([content |-> JList(<<JObj([text |-> JText(inner)])>>)]))

ExamplePayload == RawFeedback(<<RawExperience(<<GoodBullet>>)>>, <<>>)

RichPayload ==
    RawFeedback(
        <<RawExperience(<<JObj(BaseBullet @@ ("score" :> JInt(10))),
                          JObj(BaseBullet @@ ("score" :> JStr(<<"6">>))
                                          @@ ("rewrites" :> JList(<<JStr(TxtEmpty)>>)))>>)>>,
        <<RawProject(<<JObj(BaseBullet @@ ("score" :> JFloat(3, TRUE))
                                       @@ ("rewrites" :> JList(<<JStr(TxtR), JStr(TxtS)>>)))>>)>>)

BotPayloads ==
    {ExamplePayload, RichPayload, EmptyPayload,
     JObj([experiences |-> JList(<<>>)]),
     RawFeedback(<<RawExperience(<<JObj(BaseBullet @@ ("score" :> JInt(0)))>>)>>, <<>>),
     RawFeedback(<<>>, <<RawProject(<<JObj(BaseBullet @@ ("score" :> JInt(7)) @@
         ("rewrites" :> JList(<<JStr(TxtR), JStr(TxtS), JStr(TxtR)>>)))>>)>>)}

ErrorBody == JsonDoc(JObj([type |-> JStr(<<"e">>)]))

SuccessBodies ==
    {Envelope(JsonDoc(p)) : p \in BotPayloads}
    \cup {Envelope(NotJsonDoc), Envelope(JsonDoc(JList(<<>>))), ErrorBody, NotJsonDoc}

FailureBodies == {ErrorBody, Envelope(JsonDoc(ExamplePayload))}

Response(status, text) == [kind |-> "response", status |-> status, text |-> text]

\* what one requests.post may end in: a transport error, or a response
PostOutcomes ==
    {[kind |-> "error"]}
    \cup {Response(200, b) : b \in SuccessBodies}
    \cup {Response(st, b) : st \in {404, 500}, b \in FailureBodies}

\* a client that leaves out raise_for_status
RaiseForStatusNever(r) == Ok(r)

\* response.raise_for_status(): HTTPError for 4xx and 5xx, carrying the response
RaiseForStatus(r) ==
    IF 400 <= r.status /\ r.status < 600
    THEN Err([type |-> "HTTPError", status |-> r.status, text |-> r.text])
    ELSE Ok(r)

\* a client that returns the envelope's 'completion' key, which the messages
\* API does not send, instead of the body
TryPostCompletionField(o) ==
    IF o.kind = "error" THEN Err([type |-> "ConnectionError"])
    ELSE LET r == RaiseForStatus(o)
         IN  IF r.ok THEN Ok(NotJsonDoc) ELSE r

\* one pass through the try block of the retry loop: post, raise_for_status,
\* return response.text
TryPost(o) ==
    IF o.kind = "error" THEN Err([type |-> "ConnectionError"])
    ELSE LET r == RaiseForStatus(o)
         IN  IF r.ok THEN Ok(o.text) ELSE r

(***************************************************************************)
(* review_resume after the completion has come back                        *)
(* (src/ai-resume-review.py 170-176).                                      *)
(***************************************************************************)
\* result['content'][0]['text']
ContentText(result) ==
    IF result.t # "obj" THEN Err("TypeError")
    ELSE IF ~Has(result, "content") THEN Err("KeyError")
    ELSE LET c == result.v.content
         IN  IF c.t # "list" THEN Err("TypeError")
             ELSE IF Len(c.v) = 0 THEN Err("IndexError")
             ELSE IF c.v[1].t # "obj" THEN Err("TypeError")
             ELSE IF ~Has(c.v[1], "text") THEN Err("KeyError")
             ELSE Ok(c.v[1].v.text)

\* json.loads(completion), the envelope's text, json.loads of it,
\* ResumeFeedback(**...) and .dict()
ParseCompletion(completion, major) ==
    LET result == JsonLoads(completion)
    IN  IF ~result.ok THEN result
        ELSE LET text == ContentText(result.value)
             IN  IF ~text.ok THEN text
                 ELSE LET inner == JsonLoads(text.value.doc)
                      IN  IF ~inner.ok THEN inner
                          ELSE IF inner.value.t # "obj" THEN Err("TypeError")
                          ELSE ResumeFeedback(inner.value, major)

(***************************************************************************)
(* The embeds on_message builds (src/ai-resume-review.py 231-258).         *)
(***************************************************************************)
LoadingEmbed == [kind |-> "loading"]
MainEmbed == [kind |-> "main"]

\* "\n\n> ".join(bullet['rewrites']) if bullet['rewrites'] else None
JoinedRewrites(bullet) ==
    IF bullet.rewrites # <<>>
    THEN Ok(Join(<<"\n", "\n", ">", " ">>, bullet.rewrites))
    ELSE None

\* the embed fields of one bullet; `if rewrites:` is false for None and for ""
BulletFields(bullet) ==
    LET rewrites == JoinedRewrites(bullet)
        base == <<[name |-> "", value |-> <<">", " ", "*">> \o bullet.content \o <<"*", "\n">>],
                  [name |-> "Feedback", value |-> <<">", " ">> \o bullet.feedback \o <<"\n">>]>>
    IN  IF rewrites # None /\ rewrites.value # <<>>
        THEN Append(base, [name |-> "Suggestion: ", value |-> <<">", " ">> \o rewrites.value])
        ELSE base

BulletEmbed(bullet) ==
    [kind |-> "bullet", title |-> bullet.score, color |-> get_score_color(bullet.score),
     fields |-> BulletFields(bullet)]

ExperienceEmbed(experience) ==
    [kind |-> "header", section |-> "experiences",
     title |-> <<experience.company, experience.role>>]

ProjectEmbed(project) ==
    [kind |-> "header", section |-> "projects", title |-> <<project.title>>]

\* The two nested for loops, as a position <<section, item, bullet>>; bullet 0
\* is the item's header embed.
NoPos == <<"end", 0, 0>>

FirstPos(fb) ==
    IF Len(fb.experiences) > 0 THEN <<"experiences", 1, 0>>
    ELSE IF Len(fb.projects) > 0 THEN <<"projects", 1, 0>>
    ELSE NoPos

\* loops that stop after the experiences
NextPosNoProjects(fb, p) ==
    LET items == fb[p[1]]
    IN  IF p[3] < Len(items[p[2]].bullets) THEN <<p[1], p[2], p[3] + 1>>
        ELSE IF p[2] < Len(items) THEN <<p[1], p[2] + 1, 0>>
        ELSE NoPos

NextPos(fb, p) ==
    LET items == fb[p[1]]
    IN  IF p[3] < Len(items[p[2]].bullets) THEN <<p[1], p[2], p[3] + 1>>
        ELSE IF p[2] < Len(items) THEN <<p[1], p[2] + 1, 0>>
        ELSE IF p[1] = "experiences" /\ Len(fb.projects) > 0 THEN <<"projects", 1, 0>>
        ELSE NoPos

\* the embed the loops send at position p
EmbedAt(fb, p) ==
    LET item == fb[p[1]][p[2]]
    IN  IF p[3] > 0 THEN BulletEmbed(item.bullets[p[3]])
        ELSE IF p[1] = "experiences" THEN ExperienceEmbed(item)
        ELSE ProjectEmbed(item)

(***************************************************************************)
(* The event loop and the on_message tasks.  discord.py runs each event's  *)
(* handler as a task of one asyncio loop: a task gives up the thread only  *)
(* at an await, and review_resume (conversion, requests.post, parsing) is  *)
(* an ordinary call, so the task keeps the thread throughout it.           *)
(***************************************************************************)
BotInit ==
    /\ waited = 0
    /\ running = 0
    /\ msg = [e \in Events |-> None]
    /\ pc = [e \in Events |-> "idle"]
    /\ att = [e \in Events |-> 0]
    /\ pdf = [e \in Events |-> None]
    /\ feedback = [e \in Events |-> None]
    /\ pos = [e \in Events |-> NoPos]
    /\ sent = [e \in Events |-> <<>>]
    /\ outcome = [e \in Events |-> <<>>]
    /\ attempt = 0
    /\ reqlog = <<>>
    /\ callResult = None
    /\ sleepCoros = 0
    /\ calls = [e \in Events |-> <<>>]

Init ==
    /\ BotInit
    /\ input = None
    /\ output = None

\* a second passes while the retry loop is between a failed attempt and the
\* next one (time is not followed anywhere else)
Tick ==
    /\ \E e \in Events : pc[e] = "post" /\ attempt > 0
    /\ waited < RETRY_DELAY
    /\ waited' = waited + 1
    /\ UNCHANGED <<running, msg, pc, att, pdf, feedback, pos, sent, outcome,
                   attempt, reqlog, callResult, sleepCoros, input, output, calls>>

\* a message-created event, one of `messages`, reaches the bot: its
\* on_message task is due
Arrive(e, messages) ==
    /\ pc[e] = "idle"
    /\ \A d \in 1..(e - 1) : pc[d] # "idle"
    /\ \E m \in messages : msg' = [msg EXCEPT ![e] = m]
    /\ pc' = [pc EXCEPT ![e] = "ready"]
    /\ UNCHANGED <<waited, running, att, pdf, feedback, pos, sent, outcome,
                   attempt, reqlog, callResult, sleepCoros, input, output, calls>>

\* the for loop over message.attachments moves on from index `from`: the next
\* PDF's iteration begins with `await message.channel.send(embed=loading_embed)`
NextAttachment(e, from) ==
    LET i == NextPdf(msg[e], from)
    IN  /\ att' = [att EXCEPT ![e] = i]
        /\ pc' = [pc EXCEPT ![e] = IF i = 0 THEN "done" ELSE "await_loading"]
        /\ running' = 0

\* an on_message without the test of the author
StartAnyAuthor(e) ==
    /\ running = 0
    /\ pc[e] = "ready"
    /\ IF ~msg[e].in_thread
       THEN /\ pc' = [pc EXCEPT ![e] = "crashed"]
            /\ UNCHANGED <<att, running>>
       ELSE IF msg[e].parent_id \notin {RESUME_REVIEW_TEST_CHANNEL_ID, RESUME_REVIEW_CHANNEL_ID}
       THEN /\ pc' = [pc EXCEPT ![e] = "done"]
            /\ UNCHANGED <<att, running>>
       ELSE NextAttachment(e, 1)
    /\ UNCHANGED <<waited, msg, pdf, feedback, pos, sent, outcome,
                   attempt, reqlog, callResult, sleepCoros, input, output, calls>>

\* the loop starts the task: on_message up to its first await (lines 209-224)
Start(e) ==
    /\ running = 0
    /\ pc[e] = "ready"
    /\ IF ~msg[e].in_thread
       THEN \* message.channel.parent_id raises AttributeError in the first log call
            /\ pc' = [pc EXCEPT ![e] = "crashed"]
            /\ UNCHANGED <<att, running>>
       ELSE IF msg[e].author = "bot"
            \/ msg[e].parent_id \notin {RESUME_REVIEW_TEST_CHANNEL_ID, RESUME_REVIEW_CHANNEL_ID}
       THEN /\ pc' = [pc EXCEPT ![e] = "done"]
            /\ UNCHANGED <<att, running>>
       ELSE NextAttachment(e, 1)
    /\ UNCHANGED <<waited, msg, pdf, feedback, pos, sent, outcome,
                   attempt, reqlog, callResult, sleepCoros, input, output, calls>>

Delivered(e, embed) == sent' = [sent EXCEPT ![e] = Append(@, [att |-> att[e], embed |-> embed])]

\* an on_message that goes on to the main embed without its loading embed
LoadingSentNothing(e) ==
    /\ running = 0
    /\ pc[e] = "await_loading"
    /\ pc' = [pc EXCEPT ![e] = "await_main"]
    /\ UNCHANGED <<waited, running, msg, att, pdf, feedback, pos, sent, outcome,
                   attempt, reqlog, callResult, sleepCoros, input, output, calls>>

\* `await message.channel.send(embed=loading_embed)` completes (line 224);
\* a send that raises leaves on_message, since it is outside the try
LoadingSent(e) ==
    /\ running = 0
    /\ pc[e] = "await_loading"
    /\ \/ /\ Delivered(e, LoadingEmbed)
          /\ pc' = [pc EXCEPT ![e] = "await_main"]
       \/ /\ pc' = [pc EXCEPT ![e] = "crashed"]
          /\ UNCHANGED sent
    /\ UNCHANGED <<waited, running, msg, att, pdf, feedback, pos, outcome,
                   attempt, reqlog, callResult, sleepCoros, input, output, calls>>

\* `await message.channel.send(embed=main_embed)` completes (line 226)
MainSent(e) ==
    /\ running = 0
    /\ pc[e] = "await_main"
    /\ \/ /\ Delivered(e, MainEmbed)
          /\ pc' = [pc EXCEPT ![e] = "await_read"]
       \/ /\ pc' = [pc EXCEPT ![e] = "crashed"]
          /\ UNCHANGED sent
    /\ UNCHANGED <<waited, running, msg, att, pdf, feedback, pos, outcome,
                   attempt, reqlog, callResult, sleepCoros, input, output, calls>>

\* `await attachment.read()` completes (line 227); on success the task goes
\* on into review_resume without giving up the thread
ReadDone(e) ==
    /\ running = 0
    /\ pc[e] = "await_read"
    /\ \/ /\ pdf' = [pdf EXCEPT ![e] = [bytes |-> msg[e].attachments[att[e]]]]
          /\ pc' = [pc EXCEPT ![e] = "convert"]
          /\ running' = e
          /\ calls' = [calls EXCEPT ![e] = <<>>]
       \/ /\ pc' = [pc EXCEPT ![e] = "crashed"]
          /\ UNCHANGED <<pdf, running, calls>>
    /\ UNCHANGED <<waited, msg, att, feedback, pos, sent, outcome,
                   attempt, reqlog, callResult, sleepCoros, input, output>>

\* a try around the whole for loop: the first failure ends the handler
FailedEndsLoop(e, error) ==
    /\ outcome' = [outcome EXCEPT ![e] = Append(@, [att |-> att[e], result |-> "failed",
                                                     error |-> error])]
    /\ att' = [att EXCEPT ![e] = 0]
    /\ pc' = [pc EXCEPT ![e] = "done"]
    /\ running' = 0

\* `except Exception as e: logging.error(...)` (lines 262-263): the iteration
\* ends, nothing is sent, the for loop goes on
Failed(e, error) ==
    /\ outcome' = [outcome EXCEPT ![e] = Append(@, [att |-> att[e], result |-> "failed",
                                                     error |-> error])]
    /\ NextAttachment(e, att[e] + 1)

\* convert_pdf_to_image (line 156); then get_chat_completion is called (line 169)
Convert(e) ==
    /\ running = e
    /\ pc[e] = "convert"
    /\ \/ /\ pc' = [pc EXCEPT ![e] = "post"]
          /\ calls' = [calls EXCEPT ![e] = Append(@, 0)]
          /\ UNCHANGED <<att, running, outcome>>
       \/ /\ Failed(e, "ConversionError")
          /\ UNCHANGED calls
    /\ UNCHANGED <<waited, msg, pdf, feedback, pos, sent, attempt, reqlog, callResult,
                   sleepCoros, input, output>>

\* requests.post is called (line 80): the request goes out
PostIssue(e) ==
    /\ running = e
    /\ pc[e] = "post"
    /\ reqlog' = Append(reqlog, [attempt |-> attempt + 1])
    /\ pc' = [pc EXCEPT ![e] = "in_flight"]
    /\ calls' = [calls EXCEPT ![e][Len(calls[e])] = @ + 1]
    /\ UNCHANGED <<waited, running, msg, att, pdf, feedback, pos, sent, outcome,
                   attempt, callResult, sleepCoros, input, output>>

\* an except clause that raises a new generic exception after the last attempt
AfterFailureWrapped(e, err) ==
    IF attempt < retries - 1
    THEN /\ sleepCoros' = sleepCoros + 1
         /\ attempt' = attempt + 1
         /\ pc' = [pc EXCEPT ![e] = "post"]
         /\ UNCHANGED callResult
    ELSE /\ callResult' = [kind |-> "raised", error |-> [type |-> "Exception"]]
         /\ pc' = [pc EXCEPT ![e] = "raised"]
         /\ UNCHANGED <<sleepCoros, attempt>>

\* what the except clause does after a failed attempt (lines 84-90)
AfterFailure(e, err) ==
    IF attempt < retries - 1
    THEN \* asyncio.sleep(2) only builds a coroutine object: nothing waits for it
         /\ sleepCoros' = sleepCoros + 1
         /\ attempt' = attempt + 1
         /\ pc' = [pc EXCEPT ![e] = "post"]
         /\ UNCHANGED callResult
    ELSE \* `raise`: the exception of this attempt leaves get_chat_completion
         /\ callResult' = [kind |-> "raised", error |-> err]
         /\ pc' = [pc EXCEPT ![e] = "raised"]
         /\ UNCHANGED <<sleepCoros, attempt>>

\* requests.post returns or raises, with one of `outcomes`; raise_for_status;
\* return response.text
PostReturn(e, outcomes) ==
    /\ running = e
    /\ pc[e] = "in_flight"
    /\ \E o \in outcomes :
          LET r == TryPost(o)
          IN  /\ reqlog' = [reqlog EXCEPT ![Len(reqlog)] = @ @@ [outcome |-> o]]
              /\ IF r.ok
                 THEN /\ callResult' = [kind |-> "returned", text |-> r.value]
                      /\ pc' = [pc EXCEPT ![e] = "parse"]
                      /\ UNCHANGED <<sleepCoros, attempt>>
                 ELSE AfterFailure(e, r.error @@ [attempt |-> attempt + 1])
    /\ waited' = 0
    /\ UNCHANGED <<running, msg, att, pdf, feedback, pos, sent, outcome,
                   input, output, calls>>

\* the frame of get_chat_completion is gone once the call is over
CallOver ==
    /\ attempt' = 0
    /\ reqlog' = <<>>
    /\ callResult' = None
    /\ sleepCoros' = 0

\* the exception get_chat_completion raised passes review_resume's
\* `except Exception: ... raise` (lines 180-182) and on_message catches it
CompletionRaised(e) ==
    /\ running = e
    /\ pc[e] = "raised"
    /\ Failed(e, "CompletionError")
    /\ CallOver
    /\ UNCHANGED <<waited, msg, pdf, feedback, pos, sent, input, output, calls>>

\* the for loops reach position p: its embed is built and its send awaited,
\* or the loops are over and the iteration ends
Render(e, fb, p) ==
    IF p = NoPos
    THEN /\ outcome' = [outcome EXCEPT ![e] = Append(@, [att |-> att[e], result |-> "ok",
                                                          feedback |-> fb])]
         /\ pos' = [pos EXCEPT ![e] = NoPos]
         /\ NextAttachment(e, att[e] + 1)
    ELSE /\ pos' = [pos EXCEPT ![e] = p]
         /\ pc' = [pc EXCEPT ![e] = "await_block"]
         /\ running' = 0
         /\ UNCHANGED <<att, outcome>>

\* a review_resume that asks the model again when its output does not parse
\* or validate
ParseRequerying(e) ==
    /\ running = e
    /\ pc[e] = "parse"
    /\ \E major \in PydanticMajors :
          LET r == ParseCompletion(callResult.text, major)
          IN  IF r.ok
              THEN /\ feedback' = [feedback EXCEPT ![e] = r.value]
                   /\ Render(e, r.value, FirstPos(r.value))
                   /\ UNCHANGED calls
              ELSE /\ pc' = [pc EXCEPT ![e] = "post"]
                   /\ calls' = [calls EXCEPT ![e] = Append(@, 0)]
                   /\ UNCHANGED <<feedback, pos, att, running, outcome>>
    /\ CallOver
    /\ UNCHANGED <<waited, msg, pdf, sent, input, output>>

\* review_resume parses and validates the completion (lines 170-182), and
\* on_message goes on to its first feedback embed
Parse(e) ==
    /\ running = e
    /\ pc[e] = "parse"
    /\ \E major \in PydanticMajors :
          LET r == ParseCompletion(callResult.text, major)
          IN  IF r.ok
              THEN /\ feedback' = [feedback EXCEPT ![e] = r.value]
                   /\ Render(e, r.value, FirstPos(r.value))
              ELSE /\ Failed(e, r.error)
                   /\ UNCHANGED <<feedback, pos>>
    /\ CallOver
    /\ UNCHANGED <<waited, msg, pdf, sent, input, output, calls>>

\* `await message.channel.send(embed=...)` of a feedback embed completes
\* (lines 234, 242, 250, 258); a send that raises is caught by the try
BlockSent(e) ==
    /\ running = 0
    /\ pc[e] = "await_block"
    /\ \/ /\ Delivered(e, EmbedAt(feedback[e], pos[e]))
          /\ Render(e, feedback[e], NextPos(feedback[e], pos[e]))
       \/ /\ Failed(e, "HTTPException")
          /\ UNCHANGED <<sent, pos>>
    /\ UNCHANGED <<waited, msg, pdf, feedback, attempt, reqlog, callResult, sleepCoros,
                   input, output, calls>>

\* one on_message task, from its event to its end
Next ==
    \/ Tick
    \/ Arrive(1, Messages)
    \/ Start(1)
    \/ LoadingSent(1)
    \/ MainSent(1)
    \/ ReadDone(1)
    \/ Convert(1)
    \/ PostIssue(1)
    \/ PostReturn(1, PostOutcomes)
    \/ CompletionRaised(1)
    \/ Parse(1)
    \/ BlockSent(1)

Spec == Init /\ [][Next]_vars

(***************************************************************************)
(* Several events on the one loop: their tasks interleave at the awaits.   *)
(***************************************************************************)
ConcurrentMessages ==
    {Message("user", TRUE, RESUME_REVIEW_CHANNEL_ID, <<FileCvPdf>>),
     Message("user", TRUE, RESUME_REVIEW_CHANNEL_ID, <<FilePng>>)}

ConcurrentOutcomes ==
    {[kind |-> "error"], Response(500, ErrorBody),
     Response(200, Envelope(JsonDoc(ExamplePayload)))}

NextConcurrent ==
    \/ Tick
    \/ \E e \in Events : Arrive(e, ConcurrentMessages)
    \/ \E e \in Events : Start(e)
    \/ \E e \in Events : LoadingSent(e)
    \/ \E e \in Events : MainSent(e)
    \/ \E e \in Events : ReadDone(e)
    \/ \E e \in Events : Convert(e)
    \/ \E e \in Events : PostIssue(e)
    \/ \E e \in Events : PostReturn(e, ConcurrentOutcomes)
    \/ \E e \in Events : CompletionRaised(e)
    \/ \E e \in Events : Parse(e)
    \/ \E e \in Events : BlockSent(e)

SpecConcurrent == Init /\ [][NextConcurrent]_vars

(***************************************************************************)
(* The pure functions, each applied to one input of its domain.            *)
(***************************************************************************)
InitPure ==
    /\ BotInit
    /\ input \in PureInputs
    /\ output = None

ApplyResumeFeedback ==
    /\ output = None
    /\ input.fn = "ResumeFeedback"
    /\ \E major \in PydanticMajors : output' = ResumeFeedback(input.arg, major)
    /\ UNCHANGED <<input, waited, running, msg, pc, att, pdf, feedback, pos, sent,
                   outcome, attempt, reqlog, callResult, sleepCoros, calls>>

ApplyScoreColor ==
    /\ output = None
    /\ input.fn = "get_score_color"
    /\ output' = [color |-> get_score_color(input.arg)]
    /\ UNCHANGED <<input, waited, running, msg, pc, att, pdf, feedback, pos, sent,
                   outcome, attempt, reqlog, callResult, sleepCoros, calls>>

NextPure == ApplyResumeFeedback \/ ApplyScoreColor

SpecPure == InitPure /\ [][NextPure]_vars

(***************************************************************************)
(* The extended review_resume (src/utils/resume_utils.py 23-341): one run, *)
(* kept in `output`, on the keyword arguments kept in `input`.  A prompt   *)
(* is a sequence of segments: the template's literal text, named by a      *)
(* string, and the interpolated values, as text.  The literal text holds   *)
(* no default and no "None".  get_chat_completion, the extraction helpers  *)
(* and models.ResumeFeedback are imported: what they return is an input.   *)
(***************************************************************************)
botVars == <<waited, running, msg, pc, att, pdf, feedback, pos, sent, outcome,
             attempt, reqlog, callResult, sleepCoros, calls>>

DefaultJobTitle ==
    <<"S", "o", "f", "t", "w", "a", "r", "e", " ", "E", "n", "g", "i", "n", "e", "e", "r">>
DefaultCompany == <<"G", "o", "o", "g", "l", "e">>
\* the first word of each of the two long literals stands for the whole
DefaultMinQual == <<"E", "d", "u", "c", "a", "t", "i", "o", "n", ":">>
DefaultPrefQual == <<"A", "d", "v", "a", "n", "c", "e", "d">>

\* values a caller may pass
GivenJobTitle == <<"S", "R", "E">>
GivenCompany == <<"A", "c", "m", "e">>
GivenMinQual == <<"B", "S">>
GivenPrefQual == <<"M", "S">>

\* the keyword arguments: None when left out
ExtendedInputs ==
    [job_title : {None, JStr(GivenJobTitle)}, company : {None, JStr(GivenCompany)},
     min_qual : {None, JStr(GivenMinQual)}, pref_qual : {None, JStr(GivenPrefQual)}]

\* the job_details dict
JobDetails(p) ==
    [job_title |-> IF p.job_title = None THEN DefaultJobTitle ELSE p.job_title.v,
     company |-> IF p.company = None THEN DefaultCompany ELSE p.company.v,
     min_qual |-> IF p.min_qual = None THEN DefaultMinQual ELSE p.min_qual.v,
     pref_qual |-> IF p.pref_qual = None THEN DefaultPrefQual ELSE p.pref_qual.v]

Lit(s) == [kind |-> "lit", text |-> s]
Val(t) == [kind |-> "val", text |-> t]

\* what an f-string puts for {v}: str(None) is "None"
Format(v) == IF v = None THEN <<"N", "o", "n", "e">> ELSE v.v

\* the system_prompt f-string: every replacement field reads job_details
SystemPrompt(job_details) ==
    <<Lit("You are an expert resume reviewer for a "), Val(job_details.job_title),
      Lit(" internship or new grad role at "), Val(job_details.company),
      Lit(". Your review should be highly detailed ... - Minimum Qualifications: "),
      Val(job_details.min_qual),
      Lit("- Preferred Qualifications: "), Val(job_details.pref_qual),
      Lit("guidelines, the default resume's data; bullet, feedback, rewrite and formatting rules for a "),
      Val(job_details.job_title), Lit(" role ... consistency throughout the resume.")>>

\* a user_prompt whose replacement fields read job_details
UserPromptFromJobDetails(p) ==
    <<Lit("Please review this resume for the role of "), Val(JobDetails(p).job_title),
      Lit(" at "), Val(JobDetails(p).company),
      Lit(". ... The job's minimum qualifications are as follows:"), Val(JobDetails(p).min_qual),
      Lit("The job's preferred qualifications are as follows:"), Val(JobDetails(p).pref_qual),
      Lit("extracted text elements, Additional feedback, the JSON schema with is_single_page filled in")>>

\* the user_prompt f-string: its replacement fields read the parameters
\* job_title, company, min_qual and pref_qual themselves
UserPrompt(p) ==
    <<Lit("Please review this resume for the role of "), Val(Format(p.job_title)),
      Lit(" at "), Val(Format(p.company)),
      Lit(". ... The job's minimum qualifications are as follows:"), Val(Format(p.min_qual)),
      Lit("The job's preferred qualifications are as follows:"), Val(Format(p.pref_qual)),
      Lit("extracted text elements, Additional feedback, the JSON schema with is_single_page filled in")>>

\* what the imported get_chat_completion may give back
ExtendedCompletions ==
    {NotJsonDoc, JsonDoc(JList(<<>>)), JsonDoc(ExamplePayload), JsonDoc(EmptyPayload)}

ExtStart ==
    [pc |-> "extract_reference", system_prompt |-> <<>>, user_prompt |-> <<>>,
     calls |-> 0, completion |-> None, parsed |-> None, result |-> None]

ExtRaised(error, line) == [kind |-> "raised", error |-> error, line |-> line]

InitExtended ==
    /\ BotInit
    /\ input \in ExtendedInputs
    /\ output = ExtStart

\* lines 27-195: job_details, the reference resume's extraction (ValueError
\* when it is no dict), system_prompt
ExtExtractReference ==
    /\ output.pc = "extract_reference"
    /\ \/ output' = [output EXCEPT !.pc = "extract_user",
                                   !.system_prompt = SystemPrompt(JobDetails(input))]
       \/ output' = [output EXCEPT !.pc = "ended", !.result = ExtRaised("ValueError", 40)]
    /\ UNCHANGED <<input, botVars>>

\* lines 197-296: the user's resume's extraction, user_prompt
ExtExtractUser ==
    /\ output.pc = "extract_user"
    /\ \/ output' = [output EXCEPT !.pc = "convert", !.user_prompt = UserPrompt(input)]
       \/ output' = [output EXCEPT !.pc = "ended", !.result = ExtRaised("ValueError", 209)]
    /\ UNCHANGED <<input, botVars>>

\* lines 298-316: the two conversions, outside the try
ExtConvert ==
    /\ output.pc = "convert"
    /\ \/ output' = [output EXCEPT !.pc = "call"]
       \/ output' = [output EXCEPT !.pc = "ended", !.result = ExtRaised("ConversionError", 298)]
    /\ UNCHANGED <<input, botVars>>

\* line 319: get_chat_completion returns the completion or raises, and then
\* `except Exception: ... raise` (lines 339-341) passes the exception on
ExtCall ==
    /\ output.pc = "call"
    /\ \/ \E c \in ExtendedCompletions :
             output' = [output EXCEPT !.pc = "parse", !.calls = @ + 1, !.completion = c]
       \/ output' = [output EXCEPT !.pc = "ended", !.calls = @ + 1,
                                   !.result = ExtRaised("CompletionError", 319)]
    /\ UNCHANGED <<input, botVars>>

\* lines 322-329: json.loads; a JSONDecodeError is raised anew as ValueError,
\* which lines 339-341 log and raise again
ExtParse ==
    /\ output.pc = "parse"
    /\ LET result == JsonLoads(output.completion)
       IN  IF result.ok
           THEN output' = [output EXCEPT !.pc = "validate", !.parsed = result.value]
           ELSE output' = [output EXCEPT !.pc = "ended",
                                         !.result = ExtRaised("ValueError", 329)]
    /\ UNCHANGED <<input, botVars>>

\* lines 331-341: ResumeFeedback(**result) and .dict(); a ValidationError is
\* logged and raised again (336-338), so is any other exception (339-341)
ExtValidate ==
    /\ output.pc = "validate"
    /\ IF output.parsed.t # "obj"
       THEN output' = [output EXCEPT !.pc = "ended", !.result = ExtRaised("TypeError", 331)]
       ELSE \/ output' = [output EXCEPT !.pc = "ended",
                                        !.result = [kind |-> "returned"]]
            \/ output' = [output EXCEPT !.pc = "ended",
                                        !.result = ExtRaised("ValidationError", 331)]
    /\ UNCHANGED <<input, botVars>>

NextExtended ==
    \/ ExtExtractReference
    \/ ExtExtractUser
    \/ ExtConvert
    \/ ExtCall
    \/ ExtParse
    \/ ExtValidate

SpecExtended == InitExtended /\ [][NextExtended]_vars

(***************************************************************************)
(* Both review_resume functions at work: an on_message task of the bot,    *)
(* and one run of the extended function called with no job arguments.      *)
(***************************************************************************)
InitReview ==
    /\ BotInit
    /\ input = [job_title |-> None, company |-> None, min_qual |-> None, pref_qual |-> None]
    /\ output = ExtStart

NextReview == Next \/ NextExtended

SpecReview == InitReview /\ [][NextReview]_vars

(***************************************************************************)
(* Properties of get_chat_completion.                                      *)
(***************************************************************************)
\* an attempt whose requests.post has come back
Answered(i) == "outcome" \in DOMAIN reqlog[i]

\* the attempt got no response, or one with an error status
AttemptFailed(i) ==
    /\ Answered(i)
    /\ \/ reqlog[i].outcome.kind = "error"
       \/ reqlog[i].outcome.status >= 400

\* the exception attempt i ended with
ExceptionOf(i) ==
    IF reqlog[i].outcome.kind = "error"
    THEN [type |-> "ConnectionError", attempt |-> i]
    ELSE [type |-> "HTTPError", attempt |-> i,
          status |-> reqlog[i].outcome.status, text |-> reqlog[i].outcome.text]

\* C1: against a transport that fails on every attempt one call makes
\* exactly 3 requests, never a 4th, and ends by raising the exception of
\* the third attempt itself.
C1_AlwaysFailingTransport ==
    /\ Len(reqlog) <= 3
    /\ \A e \in Events : pc[e] = "raised" =>
          /\ Len(reqlog) = 3
          /\ \A i \in 1..3 : AttemptFailed(i)
          /\ callResult = [kind |-> "raised", error |-> ExceptionOf(3)]
    /\ (Len(reqlog) = 3 /\ \A i \in 1..3 : AttemptFailed(i)) =>
          \E e \in Events : pc[e] = "raised"

C1_Witness ==
    \E e \in Events :
        /\ pc[e] = "raised"
        /\ reqlog[1].outcome.kind = "error"
        /\ reqlog[3].outcome.kind = "error"
        /\ callResult.error.attempt = 3

\* C2: when the first k attempts fail (k = 0, 1, 2) and attempt k+1
\* succeeds, the call makes exactly k+1 requests, none after the success,
\* and returns the text of response k+1 as it is.
C2_FailThenSucceed ==
    /\ \A i \in 1..Len(reqlog) : (Answered(i) /\ ~AttemptFailed(i)) => i = Len(reqlog)
    /\ \A e \in Events : pc[e] = "parse" =>
          LET n == Len(reqlog)
          IN  /\ n \in 1..3
              /\ attempt = n - 1
              /\ \A i \in 1..(n - 1) : AttemptFailed(i)
              /\ Answered(n) /\ ~AttemptFailed(n)
              /\ callResult = [kind |-> "returned", text |-> reqlog[n].outcome.text]

C2_Witness ==
    \E e \in Events :
        /\ pc[e] = "parse"
        /\ Len(reqlog) = 3
        /\ AttemptFailed(1) /\ AttemptFailed(2)
        /\ callResult.text = reqlog[3].outcome.text

Returned == callResult # None /\ callResult.kind = "returned"
Raised == callResult # None /\ callResult.kind = "raised"

\* a response with an error status
ErrorStatus(i) ==
    /\ Answered(i)
    /\ reqlog[i].outcome.kind = "response"
    /\ reqlog[i].outcome.status >= 400

\* C3: a response with a non-success status is a failed attempt: its body
\* is never returned, it uses up one of the 3 attempts, and when every
\* attempt gets such a response the call raises an error that carries the
\* status and the body.
C3_NonSuccessStatusIsFailure ==
    /\ Returned => (~ErrorStatus(Len(reqlog)) /\ reqlog[Len(reqlog)].outcome.status < 400)
    /\ \A i \in 1..Len(reqlog) : ErrorStatus(i) =>
          \/ attempt >= i
          \/ Raised /\ i = 3
    /\ \A e \in Events :
          (pc[e] = "raised" /\ \A i \in 1..3 : ErrorStatus(i)) =>
              /\ callResult.error.type = "HTTPError"
              /\ callResult.error.status = reqlog[3].outcome.status
              /\ callResult.error.text = reqlog[3].outcome.text

C3_Witness ==
    \E e \in Events :
        /\ pc[e] = "raised"
        /\ \A i \in 1..3 : ErrorStatus(i)
        /\ reqlog[3].outcome.text = Envelope(JsonDoc(ExamplePayload))

\* C4: a retry is issued only once the fixed delay after the failed attempt
\* has gone by, and no delay follows the final attempt.
C4_DelayElapses ==
    [][\A e \in Events :
          /\ (pc[e] = "post" /\ pc'[e] = "in_flight" /\ attempt > 0) => waited >= RETRY_DELAY
          /\ pc'[e] = "raised" => sleepCoros' = sleepCoros]_vars

(***************************************************************************)
(* Properties of on_message.                                               *)
(***************************************************************************)
\* C5: a review that fails after its "in progress" notice ends with a
\* failure message sent to the channel.
C5_FailureIsReported ==
    \A e \in Events : \A k \in 1..Len(outcome[e]) :
        outcome[e][k].result = "failed" =>
            \E j \in 1..Len(sent[e]) :
                /\ sent[e][j].att = outcome[e][k].att
                /\ sent[e][j].embed.kind \notin {"loading", "main", "header", "bullet"}

\* the review is inside the conversion or the completion call
InPipeline(e) == pc[e] \in {"convert", "post", "in_flight"}

\* C6: while one review is inside the conversion or the completion call,
\* the loop can still start the handler of another event that is ready.
C6_LoopStaysResponsive ==
    \A e1 \in Events : \A e2 \in Events :
        (InPipeline(e1) /\ pc[e2] = "ready") => ENABLED Start(e2)

\* concatenation of a sequence of sequences
RECURSIVE Flatten(_)
Flatten(ss) == IF ss = <<>> THEN <<>> ELSE Head(ss) \o Flatten(Tail(ss))

\* one header, then one block per bullet
ItemBlocks(header, bullets) ==
    <<header>> \o [j \in 1..Len(bullets) |-> BulletEmbed(bullets[j])]

ExpectedBlocks(fb) ==
    Flatten([i \in 1..Len(fb.experiences) |->
                ItemBlocks(ExperienceEmbed(fb.experiences[i]), fb.experiences[i].bullets)])
    \o Flatten([i \in 1..Len(fb.projects) |->
                ItemBlocks(ProjectEmbed(fb.projects[i]), fb.projects[i].bullets)])

RECURSIVE CountBullets(_)
CountBullets(items) ==
    IF items = <<>> THEN 0 ELSE Len(Head(items).bullets) + CountBullets(Tail(items))

\* the embeds sent for attachment i of event e
SentFor(e, i) ==
    LET OfAttachment(x) == x.att = i
        s == SelectSeq(sent[e], OfAttachment)
    IN  [j \in 1..Len(s) |-> s[j].embed]

\* one experience, one bullet scored 9 with one rewrite
ExampleFeedback ==
    [experiences |-> <<[company |-> TxtC, role |-> TxtR,
                        bullets |-> <<[content |-> TxtC, feedback |-> TxtF,
                                       rewrites |-> <<TxtR>>, score |-> 9]>>]>>,
     projects |-> <<>>]

Applied(fn) == output # None /\ input.fn = fn

\* the elements of the list under key k of a raw object, none when k is
\* absent or no list
RawItems(o, k) ==
    IF o.t = "obj" /\ Has(o, k) /\ o.v[k].t = "list"
    THEN {o.v[k].v[i] : i \in 1..Len(o.v[k].v)}
    ELSE {}

RawBulletsIn(p) ==
    UNION {RawItems(it, "bullets") : it \in RawItems(p, "experiences") \cup RawItems(p, "projects")}

Lacks(o, keys) == o.t = "obj" /\ \E k \in keys : ~Has(o, k)

MissingRequired(p) ==
    \/ Lacks(p, {"experiences", "projects"})
    \/ \E x \in RawItems(p, "experiences") : Lacks(x, {"company", "role", "bullets"})
    \/ \E x \in RawItems(p, "projects") : Lacks(x, {"title", "bullets"})
    \/ \E b \in RawBulletsIn(p) : Lacks(b, {"content", "feedback", "score"})

ScoreOutOfRange(b) ==
    /\ b.t = "obj" /\ Has(b, "score") /\ b.v.score.t = "int"
    /\ (b.v.score.v < 1 \/ b.v.score.v > 10)

\* the score is text, a boolean, null, or a number with a fractional part
ScoreNotInteger(b) ==
    /\ b.t = "obj" /\ Has(b, "score")
    /\ \/ b.v.score.t \in {"str", "bool", "null"}
       \/ b.v.score.t = "float" /\ b.v.score.frac

TooManyRewrites(b) ==
    /\ b.t = "obj" /\ Has(b, "rewrites") /\ b.v.rewrites.t = "list"
    /\ Len(b.v.rewrites.v) > 2

\* C7: the schema rejects every input with a required field missing, a
\* bullet score outside [1,10] or not an integer, or a bullet with more
\* than 2 rewrites.
C7_RejectsInvalid ==
    (/\ Applied("ResumeFeedback")
     /\ \/ MissingRequired(input.arg)
        \/ \E b \in RawBulletsIn(input.arg) :
              ScoreOutOfRange(b) \/ ScoreNotInteger(b) \/ TooManyRewrites(b))
    => ~output.ok

WellFormedBullet(b) ==
    /\ b.t = "obj"
    /\ \A k \in {"content", "feedback"} : Has(b, k) /\ b.v[k].t = "str"
    /\ Has(b, "score") /\ b.v.score.t = "int" /\ b.v.score.v \in 1..10
    /\ Has(b, "rewrites") =>
          /\ b.v.rewrites.t = "list"
          /\ Len(b.v.rewrites.v) <= 2
          /\ \A i \in 1..Len(b.v.rewrites.v) : b.v.rewrites.v[i].t = "str"

WellFormedItem(x, keys) ==
    /\ x.t = "obj"
    /\ \A k \in keys : Has(x, k) /\ x.v[k].t = "str"
    /\ Has(x, "bullets") /\ x.v.bullets.t = "list"
    /\ \A b \in RawItems(x, "bullets") : WellFormedBullet(b)

WellFormed(p) ==
    /\ \A k \in {"experiences", "projects"} : Has(p, k) /\ p.v[k].t = "list"
    /\ \A x \in RawItems(p, "experiences") : WellFormedItem(x, {"company", "role"})
    /\ \A x \in RawItems(p, "projects") : WellFormedItem(x, {"title"})

\* the input is one well-formed experience with at least one bullet
OneExperience(p) ==
    /\ WellFormed(p)
    /\ Len(p.v.experiences.v) = 1
    /\ Len(p.v.experiences.v[1].v.bullets.v) > 0

\* C8: the schema accepts every input whose required fields are present
\* with in-range values: the empty result, a score of 10 with rewrites, a
\* bullet without rewrites (which gets none), and keys it does not know.
C8_AcceptsValid ==
    Applied("ResumeFeedback") =>
        /\ WellFormed(input.arg) => output.ok
        /\ input.arg = EmptyPayload => output = Ok([experiences |-> <<>>, projects |-> <<>>])
        /\ OneExperience(input.arg) =>
              LET raw == input.arg.v.experiences.v[1].v.bullets.v[1]
                  out == output.value.experiences[1].bullets[1]
              IN  /\ DOMAIN out = {"content", "feedback", "rewrites", "score"}
                  /\ out.score = raw.v.score.v
                  /\ ~Has(raw, "rewrites") => out.rewrites = <<>>
                  /\ Has(raw, "rewrites") => Len(out.rewrites) = Len(raw.v.rewrites.v)

C8_Witness ==
    /\ Applied("ResumeFeedback")
    /\ OneExperience(input.arg)
    /\ Has(input.arg.v.experiences.v[1].v.bullets.v[1], "note")
    /\ output.ok
    /\ output.value.experiences[1].bullets[1].score = 10
    /\ Len(output.value.experiences[1].bullets[1].rewrites) = 2

\* C9: get_score_color maps 10 to HIGH_SCORE_COLOR, 7, 8 and 9 to
\* GOOD_SCORE_COLOR, 6 to LOW_SCORE_COLOR and 0..5 to BAD_SCORE_COLOR.
C9_ScoreTiers ==
    (Applied("get_score_color") /\ input.arg \in 0..10) =>
        output.color = CASE input.arg = 10 -> HIGH_SCORE_COLOR
                         [] input.arg \in {7, 8, 9} -> GOOD_SCORE_COLOR
                         [] input.arg = 6 -> LOW_SCORE_COLOR
                         [] input.arg \in 0..5 -> BAD_SCORE_COLOR

C9_Witness ==
    /\ Applied("get_score_color")
    /\ input.arg = 7
    /\ output.color = GOOD_SCORE_COLOR

(***************************************************************************)
(* Properties of the bullet embeds.                                        *)
(***************************************************************************)
\* the bullet whose embed on_message is sending
BulletAtPos(e) == feedback[e][pos[e][1]][pos[e][2]].bullets[pos[e][3]]

\* the indices of the embed's fields named "Suggestion: "
SuggestionFields(embed) ==
    {i \in 1..Len(embed.fields) : embed.fields[i].name = "Suggestion: "}

\* C11: a bullet block carries a suggestion field if and only if the bullet's
\* rewrites sequence is non-empty, and then it carries exactly one, holding
\* all the rewrites joined in order, whatever the items are.
C11_SuggestionIffRewrites ==
    \A e \in Events : (pc[e] = "await_block" /\ pos[e][3] > 0) =>
        LET bullet == BulletAtPos(e)
            embed == EmbedAt(feedback[e], pos[e])
            found == SuggestionFields(embed)
        IN  /\ (found # {}) <=> (bullet.rewrites # <<>>)
            /\ found # {} =>
                  /\ Cardinality(found) = 1
                  /\ \A i \in found :
                        embed.fields[i].value
                        = <<">", " ">> \o Join(<<"\n", "\n", ">", " ">>, bullet.rewrites)

(***************************************************************************)
(* Properties of review_resume.                                            *)
(***************************************************************************)
\* the errors json.loads, the envelope lookup and ResumeFeedback(**...) raise
\* on a completion that is not the expected structured data
ParseFailures ==
    {"JSONDecodeError", "TypeError", "KeyError", "IndexError", "ValidationError"}

\* the task is between two review_resume runs, or past the last one
BetweenRuns(e) == pc[e] \in {"await_loading", "await_main", "await_read", "done", "crashed"}

\* the completion at hand fails to parse or validate
Unparseable == \A major \in PydanticMajors : ~ParseCompletion(callResult.text, major).ok

\* the same of the extended review_resume, whose run is kept in `output`
ExtendedCallsOnce ==
    /\ output.calls <= 1
    /\ output.pc \in {"parse", "validate"} => output.calls = 1
    /\ (output.pc = "ended" /\ output.completion # None) =>
          /\ output.calls = 1
          /\ output.result.kind = "returned" =>
                /\ JsonLoads(output.completion).ok
                /\ output.parsed.t = "obj"
          /\ ~JsonLoads(output.completion).ok => output.result = ExtRaised("ValueError", 329)

ExtendedEndsAfterParse ==
    output.pc \in {"parse", "validate"} =>
        /\ output'.calls = output.calls
        /\ output'.completion = output.completion
        /\ output'.pc \in {output.pc, "validate", "ended"}

\* C12: one review_resume run calls get_chat_completion once; when the
\* completion does not parse or validate, the run ends there with that error
\* raised: no further request goes out and no result is returned.
C12_NoRequeryAfterParseFailure ==
    /\ [](\A e \in Events :
            /\ Len(calls[e]) <= 1
            /\ pc[e] \in {"post", "in_flight", "raised", "parse"} => Len(calls[e]) = 1
            /\ (BetweenRuns(e) /\ outcome[e] # <<>>
                /\ outcome[e][Len(outcome[e])].result = "failed"
                /\ outcome[e][Len(outcome[e])].error \in ParseFailures)
               => /\ Len(calls[e]) = 1
                  /\ calls[e][1] \in 1..retries)
    /\ [][\A e \in Events : (pc[e] = "parse" /\ pc'[e] # "parse") =>
            /\ calls'[e] = calls[e]
            /\ reqlog' = <<>>
            /\ pc'[e] \notin {"convert", "post", "in_flight"}
            /\ Unparseable =>
                  /\ outcome'[e] = Append(outcome[e],
                        [att |-> att[e], result |-> "failed",
                         error |-> ParseCompletion(callResult.text, 1).error])
                  /\ ParseCompletion(callResult.text, 1).error \in ParseFailures
                  /\ feedback'[e] = feedback[e]
                  /\ sent'[e] = sent[e]]_vars
    /\ [](input \in ExtendedInputs => ExtendedCallsOnce)
    /\ [][(input \in ExtendedInputs) => ExtendedEndsAfterParse]_vars

\* one message, two PDFs: the first review ended on text that is not JSON,
\* the second on a payload the schema rejects, received at the third attempt;
\* the extended run ended on text that is not JSON
C12_Witness ==
    \E e \in Events :
        /\ Len(outcome[e]) = 2
        /\ outcome[e][1].result = "failed" /\ outcome[e][1].error = "JSONDecodeError"
        /\ outcome[e][2].result = "failed" /\ outcome[e][2].error = "ValidationError"
        /\ calls[e] = <<retries>>
        /\ input \in ExtendedInputs
        /\ output.result = ExtRaised("ValueError", 329)

(***************************************************************************)
(* Properties of the extended review_resume's prompts.                     *)
(***************************************************************************)
\* text occurs in s
IsInfix(text, s) ==
    \E i \in 0..(Len(s) - Len(text)) : SubSeq(s, i + 1, i + Len(text)) = text

\* the prompt has text among what it interpolates
Contains(prompt, text) ==
    \E i \in 1..Len(prompt) : prompt[i].kind = "val" /\ IsInfix(text, prompt[i].text)

\* the run has built both prompts
PromptsBuilt == input \in ExtendedInputs /\ output.user_prompt # <<>>

ExpectedJobText ==
    [job_title |-> IF input.job_title = None THEN DefaultJobTitle ELSE GivenJobTitle,
     company |-> IF input.company = None THEN DefaultCompany ELSE GivenCompany,
     min_qual |-> IF input.min_qual = None THEN DefaultMinQual ELSE GivenMinQual,
     pref_qual |-> IF input.pref_qual = None THEN DefaultPrefQual ELSE GivenPrefQual]

\* C15: whichever of job_title, company, min_qual and pref_qual are set, the
\* system prompt and the user prompt each contain the default of every unset
\* parameter and the value of every set one, and neither contains "None".
C15_PromptsUseDefaults ==
    PromptsBuilt =>
        \A prompt \in {output.system_prompt, output.user_prompt} :
            /\ \A k \in DOMAIN ExpectedJobText : Contains(prompt, ExpectedJobText[k])
            /\ ~Contains(prompt, <<"N", "o", "n", "e">>)

(***************************************************************************)
(* Properties of on_message's filters and of its loop over attachments.    *)
(***************************************************************************)
\* the task has sent something, or has a review under way or behind it
Reviewing(e) ==
    \/ sent[e] # <<>>
    \/ outcome[e] # <<>>
    \/ pdf[e] # None
    \/ att[e] # 0
    \/ pc[e] \in {"await_loading", "await_main", "await_read", "convert", "post",
                  "in_flight", "raised", "parse", "await_block"}

\* the attachments the task has sent something for, or has taken up
TakenUp(e) ==
    {sent[e][j].att : j \in 1..Len(sent[e])}
    \cup {outcome[e][k].att : k \in 1..Len(outcome[e])}
    \cup ({att[e]} \ {0})

\* the file names of the model that end in .pdf, whatever the case
PdfNames == {FileCvPdf, FileUpperPdf}

\* C13: on_message sends a message or starts a review only for an event of
\* another author, in a thread whose parent is one of the two configured
\* channels, and only for attachments named *.pdf in any case.
C13_OnlyAllowedPdfReviewed ==
    \A e \in Events : Reviewing(e) =>
        /\ msg[e].author # "bot"
        /\ msg[e].in_thread
        /\ msg[e].parent_id \in {RESUME_REVIEW_TEST_CHANNEL_ID, RESUME_REVIEW_CHANNEL_ID}
        /\ \A i \in TakenUp(e) :
              /\ i \in 1..Len(msg[e].attachments)
              /\ msg[e].attachments[i] \in PdfNames

\* CV.PDF and cv.pdf were reviewed, a.png between them was passed over
C13_Witness ==
    \E e \in Events :
        /\ pc[e] = "done"
        /\ msg[e].attachments = <<FileUpperPdf, FilePng, FileCvPdf>>
        /\ {outcome[e][k].att : k \in 1..Len(outcome[e])} = {1, 3}
        /\ \A j \in 1..Len(sent[e]) : sent[e][j].att \in {1, 3}

\* the iteration of the current attachment is past its first send
PastLoading(e) ==
    pc[e] \in {"await_main", "await_read", "convert", "post", "in_flight", "raised",
               "parse", "await_block"}

\* C14: the "in progress" notice of an attachment is sent before the
\* attachment is read and before its conversion and first request; no block
\* for an attachment is sent before its notice.
C14_NoticeFirst ==
    /\ [](\A e \in Events :
            /\ PastLoading(e) =>
                  /\ SentFor(e, att[e]) # <<>>
                  /\ SentFor(e, att[e])[1] = LoadingEmbed
            /\ \A j \in 1..Len(sent[e]) : SentFor(e, sent[e][j].att)[1] = LoadingEmbed
            /\ \A k \in 1..Len(outcome[e]) :
                  /\ SentFor(e, outcome[e][k].att) # <<>>
                  /\ SentFor(e, outcome[e][k].att)[1] = LoadingEmbed)
    /\ [][\A e \in Events :
            (\/ pdf'[e] # pdf[e]
             \/ pc'[e] \in {"convert", "post", "in_flight"} /\ pc'[e] # pc[e]
             \/ Len(reqlog') > Len(reqlog) /\ running = e)
            => /\ SentFor(e, att[e]) # <<>>
               /\ SentFor(e, att[e])[1] = LoadingEmbed]_vars

\* the first request of a review is out; the two introductory embeds are
\* what has been sent for the attachment
C14_Witness ==
    \E e \in Events :
        /\ pc[e] = "in_flight"
        /\ Len(reqlog) = 1
        /\ pdf[e] # None
        /\ SentFor(e, att[e]) = <<LoadingEmbed, MainEmbed>>

\* the indices of the message's attachments that pass the filename test
PdfIndices(m) == {i \in 1..Len(m.attachments) : IsPdf(m.attachments[i])}

\* the attachments whose "in progress" notice went out
Noticed(e) == {sent[e][j].att : j \in {n \in 1..Len(sent[e]) : sent[e][n].embed = LoadingEmbed}}

\* the attachments whose iteration has ended, in the try or by a caught failure
Ended(e) == {outcome[e][k].att : k \in 1..Len(outcome[e])}

\* the handler is over: the loop ran out, or an exception left on_message
HandlerOver(e) == pc[e] \in {"done", "crashed"}

\* attachment by attachment, in order, one notice each
OneAtATime(e) ==
    /\ \A j \in 1..(Len(sent[e]) - 1) : sent[e][j].att <= sent[e][j + 1].att
    /\ \A k \in 1..(Len(outcome[e]) - 1) : outcome[e][k].att < outcome[e][k + 1].att
    /\ \A i \in Noticed(e) \cup Ended(e) :
          /\ i \in PdfIndices(msg[e])
          /\ Cardinality({n \in 1..Len(SentFor(e, i)) : SentFor(e, i)[n] = LoadingEmbed}) = 1
          /\ SentFor(e, i)[1] = LoadingEmbed
    /\ att[e] # 0 => Ended(e) = {i \in PdfIndices(msg[e]) : i < att[e]}

\* what was sent stays sent
NothingRetracted ==
    \A e \in Events :
        /\ Len(sent'[e]) >= Len(sent[e])
        /\ SubSeq(sent'[e], 1, Len(sent[e])) = sent[e]

\* the review of attachment i failed, its notice having gone out
ReviewFailed(e, i) ==
    /\ i \in Noticed(e)
    /\ \/ \E k \in 1..Len(outcome[e]) : outcome[e][k].att = i /\ outcome[e][k].result = "failed"
       \/ pc[e] = "crashed" /\ att[e] = i

\* the message gets past the tests of lines 212 and 216
PassesFilters(m) ==
    /\ m.in_thread
    /\ m.author # "bot"
    /\ m.parent_id \in {RESUME_REVIEW_TEST_CHANNEL_ID, RESUME_REVIEW_CHANNEL_ID}

\* C16: the PDFs of one message are processed one after another in
\* attachment order, each with its own notice; when the review of one fails,
\* the next PDF of the message is still taken up; what was sent for the
\* failed one stays sent.
C16_FailureDoesNotStopLater ==
    /\ [](\A e \in Events : msg[e] # None =>
            /\ OneAtATime(e)
            /\ HandlerOver(e) =>
                  \A i \in PdfIndices(msg[e]) :
                      (ReviewFailed(e, i) /\ NextPdf(msg[e], i + 1) # 0)
                      => NextPdf(msg[e], i + 1) \in Noticed(e) \cup Ended(e) \cup {att[e]})
    /\ [][NothingRetracted]_vars

\* C16 as amended: the same, for failures raised inside the try (by
\* review_resume or by the send of a feedback embed); an exception of the
\* two introductory sends or of attachment.read() ends on_message, and no
\* later attachment is taken up.
C16_CaughtFailureDoesNotStopLater ==
    /\ [](\A e \in Events : msg[e] # None =>
            /\ OneAtATime(e)
            /\ (pc[e] = "done" /\ PassesFilters(msg[e])) => Ended(e) = PdfIndices(msg[e])
            /\ (pc[e] = "crashed" /\ msg[e].in_thread) =>
                  /\ att[e] \in PdfIndices(msg[e]) \ Ended(e)
                  /\ Len(SentFor(e, att[e])) <= 2
                  /\ \A i \in PdfIndices(msg[e]) :
                        i > att[e] => i \notin Noticed(e) \cup Ended(e))
    /\ [][NothingRetracted]_vars

\* the first PDF's review failed at the send of a feedback embed, after
\* some of its embeds had gone out; the second PDF was reviewed to the end
C16_Witness ==
    \E e \in Events :
        /\ pc[e] = "done"
        /\ Len(outcome[e]) = 2
        /\ outcome[e][1].result = "failed" /\ outcome[e][1].error = "HTTPException"
        /\ Len(SentFor(e, outcome[e][1].att)) > 3
        /\ outcome[e][2].result = "ok"
        /\ Len(SentFor(e, outcome[e][2].att)) > 2

====
